---- MODULE Spec2Model ----
(***************************************************************************)
(* Helixar Blueprint Insight: the realtime relay (pages/api/websocket.ts), *)
(* the playback controller (components/BlueprintTerminal.tsx), the         *)
(* timeline interaction controller, mapper and track model                 *)
(* (components/Timeline.tsx), the dashboard (components/Dashboard.tsx) and *)
(* the sign-in (app/api/auth/[...nextauth]/route.ts).                      *)
(***************************************************************************)
EXTENDS Integers, Sequences, FiniteSets, TLC

(***************************************************************************)
(* Bounds of the model.                                                    *)
(***************************************************************************)
\* number of connection objects the relay sees over a run
MaxConns == 3
\* number of inbound messages over a run
MaxMessages == 1
\* how far, in pixels, the model drags the timeline
MaxDragScroll == 130
\* bits of precision of the rounded arithmetic of the mapper (a double has
\* 53; the model rounds the same way, to nearest and ties to even, at a
\* precision whose values fit the integers of the checker)
MantissaBits == 8

VARIABLES
    \* ---- realtime relay (server side) ----
    serverWs,      \* server.ws is set (websocket.ts:24,42)
    wssCount,      \* history: the WebSocketServer objects constructed (websocket.ts:25)
    clients,       \* wss.clients
    readyState,    \* readyState of every connection object
    inbox,         \* per connection: the frames the server sent to it, in order
    sent,          \* history: the inbound messages, in order of arrival
    \* ---- playback controller (BlueprintTerminal) ----
    isPlaying,     \* useState(false)
    currentTime,   \* useState(0)
    videoTime,     \* videoRef.current.currentTime
    videoPaused,   \* videoRef.current.paused
    lastCommand,   \* the last native command issued to the media element
    \* ---- timeline (BlueprintTerminal state handed to Timeline, and Timeline) ----
    zoomLevel,         \* useState(1)
    timelineScrollX,   \* useState(0), the scrollX prop
    scrollLeft,        \* timelineRef.current.scrollLeft
    isDragging,        \* useState(false)
    dragStartX,        \* useState(0)
    startScrollX,      \* useState(0)
    scrollEventQueued, \* a 'scroll' event of the container is waiting
    syncEffect,        \* the scroll-sync effect waiting to run, with its scrollX
    \* ---- the pointer ----
    mouseButton,   \* "up", "down"
    pointerX,      \* clientX of the pointer, measured from the timeline's left edge
    clickQueued,   \* the 'click' that follows a mouseup on the timeline
    \* ---- selection (BlueprintTerminal) ----
    selectedElement,   \* useState({ type: null })
    \* ---- time-to-pixel mapping of a Timeline given other props ----
    mapper,            \* the props, and what the render and a click computed
    \* ---- track model (Timeline) ----
    timelineData,      \* the flat collection of intervals (mockTimelineData)
    lanes,             \* the track rows as rendered, top to bottom
    \* ---- dashboard (Dashboard) ----
    query,             \* the ['blueprints'] query of useQuery
    dashboard,         \* what Dashboard renders
    \* ---- sign-in (the credentials provider) ----
    authLog,           \* history: the calls of authorize, with what they returned
    \* ---- application shell, creation flow, mount of the terminal view ----
    boundary,          \* the ErrorBoundary of the layout, with the build and the page
    newBlueprint,      \* the state of NewBlueprint, its timer and its toasts
    view,              \* the terminal view: mounted, its WebSocket, listeners and state
    \* ---- history ----
    lastEvent      \* the handler that ran last, with what it was given

relayVars == <<serverWs, wssCount, clients, readyState, inbox, sent>>
playbackVars == <<isPlaying, currentTime, videoTime, videoPaused, lastCommand>>
zoomVars == <<zoomLevel>>
scrollVars == <<timelineScrollX, scrollLeft, scrollEventQueued, syncEffect>>
dragVars == <<isDragging, dragStartX, startScrollX>>
pointerVars == <<mouseButton, pointerX, clickQueued>>
terminalVars == <<playbackVars, zoomVars, scrollVars, dragVars, pointerVars, lastEvent>>
selectionVars == <<selectedElement>>
\* the state outside the relay and outside the player and its timeline
mapperVars == <<mapper>>
trackVars == <<timelineData, lanes>>
dashboardVars == <<query, dashboard>>
authVars == <<authLog>>
shellVars == <<boundary, newBlueprint, view>>
restVars == <<mapperVars, trackVars, dashboardVars, authVars, shellVars>>
appVars == <<selectionVars, restVars>>
vars == <<relayVars, terminalVars, appVars>>

(***************************************************************************)
(* JavaScript numbers. A number is a fraction [n, d] in lowest terms with  *)
(* d > 0; d = 0 stands for the values that are not finite: 0/0 is NaN, 1/0 *)
(* is Infinity and -1/0 is -Infinity. Rounding of the binary               *)
(* representation is not modelled: arithmetic on finite values is exact.   *)
(***************************************************************************)
Abs(i) == IF i < 0 THEN -i ELSE i

Sign(i) == IF i < 0 THEN -1 ELSE IF i > 0 THEN 1 ELSE 0

RECURSIVE GCD(_, _)
GCD(a, b) == IF b = 0 THEN a ELSE GCD(b, a % b)

\* the number n/d, for any integers n and d
Num(n, d) ==
    IF d = 0 THEN [n |-> Sign(n), d |-> 0]
    ELSE LET g == GCD(Abs(n), Abs(d))
         IN  [n |-> (Sign(d) * n) \div g, d |-> Abs(d) \div g]

NaN == [n |-> 0, d |-> 0]
Infinity == [n |-> 1, d |-> 0]

Int2Num(i) == [n |-> i, d |-> 1]

IsNaN(x) == x.d = 0 /\ x.n = 0

\* Number.isFinite
IsFinite(x) == x.d > 0

\* a * b
Mul(a, b) == Num(a.n * b.n, a.d * b.d)

\* a / b: x / 0 is an infinity of the sign of x, and NaN for 0 / 0
Div(a, b) ==
    IF IsNaN(a) \/ IsNaN(b) THEN NaN
    ELSE IF ~IsFinite(b) THEN (IF IsFinite(a) THEN [n |-> 0, d |-> 1] ELSE NaN)
    ELSE IF b.n = 0 THEN Num(a.n, 0)
    ELSE Num(a.n * b.d * Sign(b.n), a.d * Abs(b.n))

\* a + b
Add(a, b) ==
    IF IsFinite(a) /\ IsFinite(b) THEN Num(a.n * b.d + b.n * a.d, a.d * b.d)
    ELSE IF IsNaN(a) \/ IsNaN(b) THEN NaN
    ELSE IF IsFinite(a) THEN b
    ELSE IF IsFinite(b) THEN a
    ELSE IF a = b THEN a ELSE NaN

Neg(a) == [n |-> -a.n, d |-> a.d]

\* a - b
Sub(a, b) == Add(a, Neg(b))

\* a < b (false when either is NaN)
Lt(a, b) ==
    /\ ~IsNaN(a) /\ ~IsNaN(b)
    /\ IF IsFinite(a) /\ IsFinite(b) THEN a.n * b.d < b.n * a.d
       ELSE IF IsFinite(a) THEN b.n > 0
       ELSE IF IsFinite(b) THEN a.n < 0
       ELSE a.n < b.n

\* a <= b (false when either is NaN)
Le(a, b) == ~IsNaN(a) /\ ~IsNaN(b) /\ ~Lt(b, a)

\* Math.min(a, b)
MathMin(a, b) == IF IsNaN(a) \/ IsNaN(b) THEN NaN ELSE IF Lt(b, a) THEN b ELSE a

\* Math.max(a, b)
MathMax(a, b) == IF IsNaN(a) \/ IsNaN(b) THEN NaN ELSE IF Lt(a, b) THEN b ELSE a

\* Math.floor of a finite number
Floor(a) == IF a.n >= 0 THEN a.n \div a.d ELSE -((-a.n + a.d - 1) \div a.d)


(***************************************************************************)
(* Realtime relay                                                          *)
(***************************************************************************)
Conns == 1..MaxConns

\* Bytes of the payloads the clients send: 'A' and 0xFF. A payload holding
\* 0xFF is not valid UTF-8 and can only arrive in a binary frame.
PayloadBytes == {65, 255}
Payloads == {<<b>> : b \in PayloadBytes}

\* 'Welcome to the WebSocket server!' as code points
WelcomeText ==
    <<87, 101, 108, 99, 111, 109, 101, 32, 116, 111, 32, 116, 104, 101, 32,
      87, 101, 98, 83, 111, 99, 107, 101, 116, 32, 115, 101, 114, 118, 101,
      114, 33>>

\* The Unicode replacement character U+FFFD
ReplacementChar == 65533

\* Buffer.prototype.toString(): decode the bytes as UTF-8, every byte that
\* cannot start or continue a sequence becoming U+FFFD. Defined here for
\* ASCII bytes and for the bytes 0xF8..0xFF, which no UTF-8 sequence holds.
RECURSIVE Utf8Decode(_)
Utf8Decode(bytes) ==
    IF bytes = <<>> THEN <<>>
    ELSE LET b == Head(bytes)
         IN  <<IF b < 128 THEN b ELSE ReplacementChar>> \o Utf8Decode(Tail(bytes))

\* The bytes of a text frame: the UTF-8 encoding of a string of code
\* points below 0x10000.
RECURSIVE Utf8Encode(_)
Utf8Encode(text) ==
    IF text = <<>> THEN <<>>
    ELSE LET cp == Head(text)
             enc == IF cp < 128 THEN <<cp>>
                    ELSE IF cp < 2048
                         THEN <<192 + (cp \div 64), 128 + (cp % 64)>>
                         ELSE <<224 + (cp \div 4096),
                                128 + ((cp \div 64) % 64),
                                128 + (cp % 64)>>
         IN  enc \o Utf8Encode(Tail(text))

\* ws.send('Welcome to the WebSocket server!'): the frame the connection
\* gets; msg numbers the inbound message a frame relays, 0 for the welcome
WelcomeFrame == [data |-> Utf8Encode(WelcomeText), msg |-> 0]

\* client.send(message.toString()): what goes on the wire for message
Relayed(message) == Utf8Encode(Utf8Decode(message))

\* a variant that relays to the sender too
RecipientsWithSender(ws) == {client \in clients : readyState[client] = "OPEN"}

\* a variant that ignores readyState
RecipientsAnyState(ws) == {client \in clients : client # ws}

\* the clients the message handler of ws sends to
Recipients(ws) == {client \in clients : client # ws /\ readyState[client] = "OPEN"}

InitRelay ==
    /\ serverWs = FALSE
    /\ wssCount = 0
    /\ clients = {}
    /\ readyState = [c \in Conns |-> "NONE"]
    /\ inbox = [c \in Conns |-> <<>>]
    /\ sent = <<>>

\* a variant without the test of server.ws
HandlerUnguarded ==
    /\ serverWs' = TRUE
    /\ wssCount' = wssCount + 1
    /\ UNCHANGED <<clients, readyState, inbox, sent, terminalVars, appVars>>

\* An HTTP request to /api/websocket: the relay is created once
Handler ==
    /\ IF ~serverWs
       THEN serverWs' = TRUE /\ wssCount' = wssCount + 1
       ELSE UNCHANGED <<serverWs, wssCount>>
    /\ UNCHANGED <<clients, readyState, inbox, sent, terminalVars, appVars>>

\* a variant that sends no welcome
OnConnectionSilent(ws) ==
    /\ serverWs
    /\ readyState[ws] = "NONE"
    /\ readyState' = [readyState EXCEPT ![ws] = "OPEN"]
    /\ clients' = clients \cup {ws}
    /\ UNCHANGED <<serverWs, wssCount, inbox, sent, terminalVars, appVars>>

\* wss.on('connection'): a new connection object ws joins wss.clients and is
\* sent the welcome text
OnConnection(ws) ==
    /\ serverWs
    /\ readyState[ws] = "NONE"
    /\ readyState' = [readyState EXCEPT ![ws] = "OPEN"]
    /\ clients' = clients \cup {ws}
    /\ inbox' = [inbox EXCEPT ![ws] = Append(@, WelcomeFrame)]
    /\ UNCHANGED <<serverWs, wssCount, sent, terminalVars, appVars>>

\* ws.on('message'): relay to the recipients. sent records the payload, the
\* sender and the connections that were open and closed at that moment.
OnMessage(ws, message) ==
    /\ readyState[ws] = "OPEN"
    /\ Len(sent) < MaxMessages
    /\ sent' = Append(sent, [from |-> ws, payload |-> message,
                             open |-> {c \in Conns : readyState[c] = "OPEN"},
                             closed |-> {c \in Conns :
                                           readyState[c] \in {"CLOSING", "CLOSED"}}])
    /\ inbox' = [c \in Conns |->
                    IF c \in Recipients(ws)
                    THEN Append(inbox[c], [data |-> Relayed(message),
                                           msg |-> Len(sent) + 1])
                    ELSE inbox[c]]
    /\ UNCHANGED <<serverWs, wssCount, clients, readyState, terminalVars, appVars>>

\* The peer's close frame arrives: the connection is CLOSING until the
\* socket ends, and stays in wss.clients meanwhile
OnCloseFrame(ws) ==
    /\ readyState[ws] = "OPEN"
    /\ readyState' = [readyState EXCEPT ![ws] = "CLOSING"]
    /\ UNCHANGED <<serverWs, wssCount, clients, inbox, sent, terminalVars, appVars>>

\* ws.on('close'): the socket ended (after a close frame or abruptly); the
\* library removes ws from wss.clients and the handler does nothing
OnClose(ws) ==
    /\ readyState[ws] \in {"OPEN", "CLOSING"}
    /\ readyState' = [readyState EXCEPT ![ws] = "CLOSED"]
    /\ clients' = clients \ {ws}
    /\ UNCHANGED <<serverWs, wssCount, inbox, sent, terminalVars, appVars>>

NextRelay ==
    \/ Handler
    \/ \E ws \in Conns : OnConnection(ws)
    \/ \E ws \in Conns, message \in Payloads : OnMessage(ws, message)
    \/ \E ws \in Conns : OnCloseFrame(ws)
    \/ \E ws \in Conns : OnClose(ws)

(***************************************************************************)
(* Playback controller and timeline (BlueprintTerminal, Timeline)          *)
(***************************************************************************)
\* mockVideo.duration, the duration prop of Timeline
Duration == 154

PIXELS_PER_SECOND_BASE == 50

\* the seconds skipForward and skipBackward move by
SkipSeconds == 10

\* min and max of the zoom slider and of the zoom buttons
ZoomMin == Num(1, 2)
ZoomMax == Int2Num(5)
\* what a zoom button adds or takes
ZoomStep == Num(1, 2)

\* clientWidth of the scrollable timeline container, in pixels
ViewportWidth == 1000

\* clientX of the pointer events, measured from the left edge of the
\* timeline container (timelineRect.left)
PointerXs == {800, 900, 930}

\* the values the slider hands to onValueChange: within [min, max], on the
\* step grid
SliderValues == {ZoomMin, Num(23, 10), ZoomMax}

\* what is typed into the zoom input (e.target.value): nothing, or a number
\* outside the min and max attributes, which restrict the steppers only
ZoomInputs == { <<>>, <<"7">>, <<"0", ".", "1">> }

\* the positions the media element reaches while it plays
MediaPositions == {Int2Num(4), Int2Num(Duration)}

DigitValue(ch) ==
    CASE ch = "0" -> 0 [] ch = "1" -> 1 [] ch = "2" -> 2 [] ch = "3" -> 3
      [] ch = "4" -> 4 [] ch = "5" -> 5 [] ch = "6" -> 6 [] ch = "7" -> 7
      [] ch = "8" -> 8 [] ch = "9" -> 9 [] OTHER -> -1

\* the longest prefix of digits of chars, as <<value, number of digits>>
RECURSIVE Digits(_, _, _)
Digits(chars, value, count) ==
    IF chars # <<>> /\ DigitValue(Head(chars)) >= 0
    THEN Digits(Tail(chars), 10 * value + DigitValue(Head(chars)), count + 1)
    ELSE <<value, count>>

RECURSIVE Pow10(_)
Pow10(k) == IF k = 0 THEN 1 ELSE 10 * Pow10(k - 1)

\* parseFloat of a decimal literal [-]digits[.digits]; NaN when the text
\* does not start with a number
ParseFloat(chars) ==
    LET neg == chars # <<>> /\ Head(chars) = "-"
        body == IF neg THEN Tail(chars) ELSE chars
        int == Digits(body, 0, 0)
        rest == SubSeq(body, int[2] + 1, Len(body))
        frac == IF rest # <<>> /\ Head(rest) = "." THEN Digits(Tail(rest), 0, 0)
                ELSE <<0, 0>>
    IN  IF int[2] = 0 /\ frac[2] = 0 THEN NaN
        ELSE LET x == Num(int[1] * Pow10(frac[2]) + frac[1], Pow10(frac[2]))
             IN  IF neg THEN Neg(x) ELSE x

\* const totalWidth = duration * PIXELS_PER_SECOND_BASE * zoomLevel
TotalWidth(duration, zoom) ==
    Mul(Mul(Int2Num(duration), Int2Num(PIXELS_PER_SECOND_BASE)), zoom)

\* scrollWidth - clientWidth of the container: the inner div is totalWidth
\* wide; a width that is no length (NaN, an infinity, a negative) is dropped
\* and the div is as wide as the container
MaxScrollLeft(zoom) ==
    LET w == TotalWidth(Duration, zoom)
        contentWidth == IF IsFinite(w) /\ w.n >= 0 THEN Floor(w) ELSE 0
    IN  IF contentWidth > ViewportWidth THEN contentWidth - ViewportWidth ELSE 0

\* what scrollLeft reads after it is set to v: the container keeps it
\* within [0, scrollWidth - clientWidth]
ClampScroll(zoom, v) ==
    IF v < 0 THEN 0 ELSE IF v > MaxScrollLeft(zoom) THEN MaxScrollLeft(zoom) ELSE v

Event(type, target) ==
    [type |-> type, before |-> currentTime, wasPlaying |-> isPlaying, target |-> target]

NoTarget == Int2Num(0)

InitTerminal ==
    /\ isPlaying = FALSE
    /\ currentTime = Int2Num(0)
    /\ videoTime = Int2Num(0)
    /\ videoPaused = TRUE
    /\ lastCommand = "none"
    /\ zoomLevel = Int2Num(1)
    /\ timelineScrollX = 0
    /\ scrollLeft = 0
    /\ isDragging = FALSE
    /\ dragStartX = 0
    /\ startScrollX = 0
    /\ scrollEventQueued = FALSE
    /\ syncEffect = [pending |-> FALSE, scrollX |-> 0]
    /\ mouseButton = "up"
    /\ pointerX = 0
    /\ clickQueued = FALSE
    /\ lastEvent = [type |-> "mount", before |-> Int2Num(0), wasPlaying |-> FALSE,
                    target |-> NoTarget]

\* const [selectedElement, setSelectedElement] = useState({ type: null })
NoSelection == [type |-> "null"]

InitSelection == selectedElement = NoSelection

(***************************************************************************)
(* The properties panel (components/PropertiesPanel.tsx): what it renders  *)
(* for a selection. The rendered text of a time is the pair of its minutes *)
(* and seconds; the Context section, which shows the playback time, is not *)
(* part of the result.                                                     *)
(***************************************************************************)
\* formatTime, of a whole number of seconds that is not negative
FormatTime(seconds) == [mins |-> seconds \div 60, secs |-> seconds % 60]

\* the text a JSX expression renders
Rendered(kind, text, n) == [kind |-> kind, text |-> text, n |-> n]

\* {x} for a string that may be undefined
RenderText(data, field) ==
    IF field \in DOMAIN data
    THEN Rendered("text", data[field], 0) ELSE Rendered("empty", "", 0)

\* {x || 'N/A'} for a string
RenderTextOrNA(data, field) ==
    IF field \in DOMAIN data /\ data[field] # ""
    THEN Rendered("text", data[field], 0) ELSE Rendered("text", "N/A", 0)

\* {x || 'N/A'} for a number
RenderNumberOrNA(data, field) ==
    IF field \in DOMAIN data /\ data[field] # 0
    THEN Rendered("number", "", data[field]) ELSE Rendered("text", "N/A", 0)

\* {volume !== undefined ? `${volume * 100}%` : 'N/A'}
RenderVolume(data) ==
    IF "volume" \in DOMAIN data
    THEN Rendered("percent", "%", data.volume * 100) ELSE Rendered("text", "N/A", 0)

NoSpecificData == "No specific data available for this type."

\* selectedElement.data, which may be undefined
DataOf(selected) == IF "data" \in DOMAIN selected THEN selected.data ELSE [x \in {} |-> 0]

\* the switch on selectedElement.type: the title and elementSpecificData,
\* and the message that stands in for an elementSpecificData that is null
SpecificSection(selected) ==
    LET data == DataOf(selected)
    IN  CASE selected.type = "narrative" ->
               [title |-> "Narrative Beat", message |-> "",
                lines |-> <<RenderText(data, "text"), RenderNumberOrNA(data, "score")>>]
          [] selected.type = "visual" ->
               [title |-> "Visual Event", message |-> "",
                lines |-> <<RenderText(data, "scene"), RenderTextOrNA(data, "description")>>]
          [] selected.type = "audio" ->
               [title |-> "Audio Event", message |-> "",
                lines |-> <<RenderText(data, "title"), RenderVolume(data)>>]
          [] selected.type = "clarity" ->
               [title |-> "Clarity Insight", message |-> "",
                lines |-> <<RenderText(data, "text"), RenderNumberOrNA(data, "score")>>]
          [] OTHER ->
               [title |-> "Element Properties", message |-> NoSpecificData,
                lines |-> <<>>]

\* x || 0 of a number that may be undefined
NumberOrZero(selected, field) ==
    IF field \in DOMAIN selected THEN selected[field] ELSE 0

\* a variant whose Duration line shows the end
GeneralSectionDurationOfEnd(selected) ==
    [id |-> IF "id" \in DOMAIN selected /\ selected.id # "" THEN selected.id ELSE "N/A",
     type |-> selected.type,
     time |-> <<FormatTime(NumberOrZero(selected, "timeStart")),
                FormatTime(NumberOrZero(selected, "timeEnd"))>>,
     duration |-> FormatTime(NumberOrZero(selected, "timeEnd"))]

\* the General section: ID, Type, Time and Duration
GeneralSection(selected) ==
    [id |-> IF "id" \in DOMAIN selected /\ selected.id # "" THEN selected.id ELSE "N/A",
     type |-> selected.type,
     time |-> <<FormatTime(NumberOrZero(selected, "timeStart")),
                FormatTime(NumberOrZero(selected, "timeEnd"))>>,
     duration |-> FormatTime(NumberOrZero(selected, "timeEnd")
                             - NumberOrZero(selected, "timeStart"))]

\* the placeholder of a selection without a type
Placeholder == [view |-> "placeholder"]

\* PropertiesPanel
PropertiesPanel(selected) ==
    IF selected.type = "null"
    THEN Placeholder
    ELSE [view |-> "properties", general |-> GeneralSection(selected),
          specific |-> SpecificSection(selected)]

\* no Timeline but the one of the terminal is mounted
MapperIdle == [stage |-> "idle"]

(***************************************************************************)
(* The application shell (app/layout.tsx) and its error boundary           *)
(* (components/ErrorBoundary.tsx).                                         *)
(***************************************************************************)
\* process.env.NODE_ENV of the build
NodeEnvs == {"development", "production", "test"}

\* the pages under app/
Routes == {"/", "/tanstack-example", "/zustand-example"}

\* what getServerSession hands to the layout
Sessions == {"none", "user"}

\* error: null of the constructor, and a thrown value that is falsy
NoError == [falsy |-> TRUE, message |-> "", stack |-> ""]

\* what a page can throw while it renders
ThrownValues ==
    { [falsy |-> FALSE, message |-> m, stack |-> s] :
        m \in {"x is not a function", "Cannot read properties of undefined",
               "Failed to fetch"},
        s \in {"at Page", "at Timeline"} } \cup {NoError}

\* the constructor of ErrorBoundary, within a layout of a build
MountedBoundary(nodeEnv, session, route) ==
    [nodeEnv |-> nodeEnv, session |-> session, route |-> route,
     hasError |-> FALSE, error |-> NoError]

\* a variant that shows the details in every build
ErrorBoundaryRenderWithDetails(b, children) ==
    IF b.hasError
    THEN [fallback |-> TRUE, children |-> {},
          details |-> IF ~b.error.falsy
                      THEN <<b.error.message, b.error.stack>> ELSE <<>>]
    ELSE [fallback |-> FALSE, children |-> children, details |-> <<>>]

\* render of ErrorBoundary: the fallback, with the details of the error in
\* a development build, or the children
ErrorBoundaryRender(b, children) ==
    IF b.hasError
    THEN [fallback |-> TRUE, children |-> {},
          details |-> IF b.nodeEnv = "development" /\ ~b.error.falsy
                      THEN <<b.error.message, b.error.stack>> ELSE <<>>]
    ELSE [fallback |-> FALSE, children |-> children, details |-> <<>>]

\* what RootLayout puts into <body>: the boundary around Providers, MainNav
\* and the page
RootLayout(b) == ErrorBoundaryRender(b, {"Providers", "MainNav", b.route})

InitBoundary == boundary = MountedBoundary("production", "none", "/")

\* a link of the navigation takes the user to another page; the layout and
\* its boundary stay mounted
Navigate(route) ==
    /\ "MainNav" \in RootLayout(boundary).children
    /\ route # boundary.route
    /\ boundary' = [boundary EXCEPT !.route = route]
    /\ UNCHANGED <<relayVars, terminalVars, selectionVars, mapperVars, trackVars>>
    /\ UNCHANGED <<dashboardVars, authVars, newBlueprint, view>>

\* the page throws while it renders: getDerivedStateFromError
PageThrows(error) ==
    /\ boundary.route \in RootLayout(boundary).children
    /\ boundary' = [boundary EXCEPT !.hasError = TRUE, !.error = error]
    /\ UNCHANGED <<relayVars, terminalVars, selectionVars, mapperVars, trackVars>>
    /\ UNCHANGED <<dashboardVars, authVars, newBlueprint, view>>

NextBoundary ==
    \/ \E route \in Routes : Navigate(route)
    \/ \E error \in ThrownValues : PageThrows(error)

(***************************************************************************)
(* The creation flow (NewBlueprint).                                       *)
(***************************************************************************)
\* the longest text typed into the url field
MaxUrlLen == 2
\* the number of toasts over a run
MaxToasts == 3

UrlChars == {" ", "h"}

\* the values of the url field
UrlValues == UNION { [1..n -> UrlChars] : n \in 0..MaxUrlLen }

RECURSIVE TrimStart(_)
TrimStart(s) == IF s # <<>> /\ Head(s) = " " THEN TrimStart(Tail(s)) ELSE s

RECURSIVE TrimEnd(_)
TrimEnd(s) ==
    IF s # <<>> /\ s[Len(s)] = " " THEN TrimEnd(SubSeq(s, 1, Len(s) - 1)) ELSE s

\* String.prototype.trim
Trim(s) == TrimEnd(TrimStart(s))

\* useState(''), useState(false), useState(false); timers counts the
\* timeouts that wait, toasts is the history of the toasts
InitCreation ==
    newBlueprint = [url |-> <<>>, isProcessing |-> FALSE, isCompleted |-> FALSE,
                    timers |-> 0, toasts |-> <<>>]

\* onChange of the url field, which is rendered outside the completed view
\* and disabled while processing
ChangeUrl(value) ==
    /\ ~newBlueprint.isCompleted
    /\ ~newBlueprint.isProcessing
    /\ value # newBlueprint.url
    /\ newBlueprint' = [newBlueprint EXCEPT !.url = value]
    /\ UNCHANGED <<relayVars, terminalVars, selectionVars, mapperVars, trackVars>>
    /\ UNCHANGED <<dashboardVars, authVars, boundary, view>>

\* a variant without the check of the url
HandleSubmitUnchecked ==
    /\ ~newBlueprint.isCompleted
    /\ ~newBlueprint.isProcessing
    /\ Len(newBlueprint.toasts) < MaxToasts
    /\ newBlueprint' = [newBlueprint EXCEPT !.isProcessing = TRUE,
                                            !.timers = @ + 1]
    /\ UNCHANGED <<relayVars, terminalVars, selectionVars, mapperVars, trackVars>>
    /\ UNCHANGED <<dashboardVars, authVars, boundary, view>>

\* handleSubmit, from the form, whose fields are disabled while processing:
\* a blank url gets a toast, any other starts the timer
HandleSubmit ==
    /\ ~newBlueprint.isCompleted
    /\ ~newBlueprint.isProcessing
    /\ Len(newBlueprint.toasts) < MaxToasts
    /\ IF Trim(newBlueprint.url) = <<>>
       THEN newBlueprint' = [newBlueprint EXCEPT !.toasts = Append(@, "Error")]
       ELSE newBlueprint' = [newBlueprint EXCEPT !.isProcessing = TRUE,
                                                 !.timers = @ + 1]
    /\ UNCHANGED <<relayVars, terminalVars, selectionVars, mapperVars, trackVars>>
    /\ UNCHANGED <<dashboardVars, authVars, boundary, view>>

\* the callback of setTimeout, after 3000 ms
TimerFires ==
    /\ newBlueprint.timers > 0
    /\ newBlueprint' = [newBlueprint EXCEPT
         !.timers = @ - 1, !.isProcessing = FALSE, !.isCompleted = TRUE,
         !.toasts = Append(@, "Blueprint Created")]
    /\ UNCHANGED <<relayVars, terminalVars, selectionVars, mapperVars, trackVars>>
    /\ UNCHANGED <<dashboardVars, authVars, boundary, view>>

\* resetForm, of 'Create Another Blueprint' in the completed view
ResetForm ==
    /\ newBlueprint.isCompleted
    /\ newBlueprint' = [newBlueprint EXCEPT !.url = <<>>, !.isCompleted = FALSE,
                                            !.isProcessing = FALSE]
    /\ UNCHANGED <<relayVars, terminalVars, selectionVars, mapperVars, trackVars>>
    /\ UNCHANGED <<dashboardVars, authVars, boundary, view>>

NextCreation ==
    \/ \E value \in UrlValues : ChangeUrl(value)
    \/ HandleSubmit
    \/ TimerFires
    \/ ResetForm

(***************************************************************************)
(* Mount and unmount of the terminal view (BlueprintTerminal and its       *)
(* Timeline): the WebSocket of the browser, the listeners and the state    *)
(* the handlers set.                                                       *)
(***************************************************************************)
\* the number of lines of websocketMessages over a run
MaxLog == 2

\* currentTime of the media at a 'timeupdate', scrollLeft at a 'scroll'
EventTimes == {0, 1}
EventScrolls == {0, 40}

\* the listeners the effects add: Timeline.tsx:138,176,177 and
\* BlueprintTerminal.tsx:196,197
MountListeners == {"scroll", "mousemove", "mouseup", "timeupdate", "loadedmetadata"}

\* after the first render and its effects: new WebSocket(...) is CONNECTING.
\* late and lateHandlers are history: the events that arrived after the
\* unmount and the handlers of the view that ran for them.
InitView ==
    view = [mounted |-> TRUE, socket |-> "CONNECTING", listeners |-> MountListeners,
            websocketMessages |-> <<>>, currentTime |-> 0, timelineScrollX |-> 0,
            isDragging |-> FALSE, late |-> {}, lateHandlers |-> {}]

\* the state of the view that the handlers set
ViewState(v) ==
    <<v.websocketMessages, v.currentTime, v.timelineScrollX, v.isDragging>>

\* a state setter of React: nothing happens for a component that is unmounted
SetState(v, field, value) == IF v.mounted THEN [v EXCEPT ![field] = value] ELSE v

\* an event arrives: the history of what arrived after the unmount
Arrived(v, event, handler, ran) ==
    IF v.mounted THEN v
    ELSE [v EXCEPT !.late = @ \cup {event},
                   !.lateHandlers = IF ran THEN @ \cup {handler} ELSE @]

\* room in websocketMessages for n more lines
LogRoom(n) == view.mounted => Len(view.websocketMessages) + n <= MaxLog

ViewUnchanged ==
    /\ UNCHANGED <<relayVars, terminalVars, selectionVars, mapperVars, trackVars>>
    /\ UNCHANGED <<dashboardVars, authVars, boundary, newBlueprint>>

\* ws.onopen
SocketOpens ==
    /\ view.socket = "CONNECTING"
    /\ LogRoom(1)
    /\ view' = Arrived(SetState([view EXCEPT !.socket = "OPEN"], "websocketMessages",
                                Append(view.websocketMessages, "connected")),
                       "open", "onopen", TRUE)
    /\ ViewUnchanged

\* ws.onmessage: the browser delivers messages to a WebSocket that is OPEN
SocketMessage ==
    /\ view.socket = "OPEN"
    /\ LogRoom(1)
    /\ view' = Arrived(SetState(view, "websocketMessages",
                                Append(view.websocketMessages, "message")),
                       "message", "onmessage", TRUE)
    /\ ViewUnchanged

\* ws.onclose after a closing handshake
SocketCloses ==
    /\ view.socket \in {"OPEN", "CLOSING"}
    /\ LogRoom(1)
    /\ view' = Arrived(SetState([view EXCEPT !.socket = "CLOSED"], "websocketMessages",
                                Append(view.websocketMessages, "disconnected")),
                       "close", "onclose", TRUE)
    /\ ViewUnchanged

\* the connection fails: ws.onerror, then ws.onclose
SocketFails ==
    /\ view.socket \in {"CONNECTING", "OPEN", "CLOSING"}
    /\ LogRoom(2)
    /\ view' = Arrived(Arrived(
                 SetState([view EXCEPT !.socket = "CLOSED"], "websocketMessages",
                          view.websocketMessages \o <<"error", "disconnected">>),
                 "error", "onerror", TRUE), "close", "onclose", TRUE)
    /\ ViewUnchanged

\* 'timeupdate' of the media element: handleTimeUpdate, if it listens
TimeUpdateEvent(time) ==
    /\ view' = Arrived(IF "timeupdate" \in view.listeners
                       THEN SetState(view, "currentTime", time) ELSE view,
                       "timeupdate", "handleTimeUpdate", "timeupdate" \in view.listeners)
    /\ view' # view
    /\ ViewUnchanged

\* 'scroll' of the container: handleScroll and onScrollChange, if it listens
ScrollEvent(left) ==
    /\ view' = Arrived(IF "scroll" \in view.listeners
                       THEN SetState(view, "timelineScrollX", left) ELSE view,
                       "scroll", "handleScroll", "scroll" \in view.listeners)
    /\ view' # view
    /\ ViewUnchanged

\* onMouseDown of the timeline, which is there while the view is mounted
PointerDown ==
    /\ view.mounted
    /\ ~view.isDragging
    /\ view' = SetState(view, "isDragging", TRUE)
    /\ ViewUnchanged

\* 'mousemove' of window: handleMouseMove, if it listens, sets no state
PointerMoveEvent ==
    /\ view' = Arrived(view, "mousemove", "handleMouseMove",
                       "mousemove" \in view.listeners)
    /\ view' # view
    /\ ViewUnchanged

\* 'mouseup' of window: handleMouseUp, if it listens
PointerUpEvent ==
    /\ view' = Arrived(IF "mouseup" \in view.listeners
                       THEN SetState(view, "isDragging", FALSE) ELSE view,
                       "mouseup", "handleMouseUp", "mouseup" \in view.listeners)
    /\ view' # view
    /\ ViewUnchanged

\* a variant whose cleanups leave the connection and the window listeners
UnmountInPart ==
    /\ view.mounted
    /\ view' = [view EXCEPT !.mounted = FALSE,
                            !.listeners = @ \ {"scroll", "timeupdate", "loadedmetadata"}]
    /\ ViewUnchanged

\* the cleanups of the effects: ws.close() and the removeEventListener calls
Unmount ==
    /\ view.mounted
    /\ view' = [view EXCEPT
         !.mounted = FALSE,
         !.socket = IF @ \in {"CONNECTING", "OPEN"} THEN "CLOSING" ELSE @,
         !.listeners = {}]
    /\ ViewUnchanged

NextView ==
    \/ SocketOpens
    \/ SocketMessage
    \/ SocketCloses
    \/ SocketFails
    \/ \E time \in EventTimes : TimeUpdateEvent(time)
    \/ \E left \in EventScrolls : ScrollEvent(left)
    \/ PointerDown
    \/ PointerMoveEvent
    \/ PointerUpEvent
    \/ Unmount

InitShell == InitBoundary /\ InitCreation /\ InitView

\* the intervals of the timeline
Element(id, type, start, end, text, colorClass) ==
    [id |-> id, type |-> type, start |-> start, end |-> end, text |-> text,
     colorClass |-> colorClass]

mockTimelineData == <<
    Element("n1", "narrative", 0, 10, "Intro to SaaS Platform", "bg-narrative"),
    Element("n2", "narrative", 15, 30, "Key Features Overview", "bg-narrative"),
    Element("n3", "narrative", 40, 55, "User Testimonials", "bg-narrative"),
    Element("v1", "visual", 5, 12, "Dashboard UI Showcase", "bg-visuals"),
    Element("v2", "visual", 25, 35, "Feature Animation Demo", "bg-visuals"),
    Element("v3", "visual", 45, 60, "Product Mockups", "bg-visuals"),
    Element("a1", "audio", 0, 15, "Background Music", "bg-audio"),
    Element("a2", "audio", 20, 40, "Voiceover Explanation", "bg-audio"),
    Element("a3", "audio", 50, 65, "Sound Effects Highlight", "bg-audio"),
    Element("c1", "clarity", 8, 11, "High Clarity Segment", "bg-clarity text-black"),
    Element("c2", "clarity", 32, 34, "Confusing Terminology", "bg-clarity text-black"),
    Element("c3", "clarity", 52, 54, "Audience Engagement Peak", "bg-clarity text-black") >>

\* ---- dashboard ----

\* how many records the blueprints table holds
MaxRecords == 2
\* how many times the model lets fetchBlueprints be called
MaxFetches == 5

\* the retries of a query that fails: useQuery is given no retry option and
\* the QueryClient no defaults, so the library's 3 apply
DefaultRetry == 3

Blueprint(status, clarityScore) == [status |-> status, clarityScore |-> clarityScore]

\* rows of the blueprints table
BlueprintPool == {
    Blueprint("completed", 80), Blueprint("completed", 60), Blueprint("completed", 75),
    Blueprint("processing", 90), Blueprint("failed", 10) }

\* what select('*') can return
BlueprintLists == UNION { [1..n -> BlueprintPool] : n \in 0..MaxRecords }

\* Math.round of a finite number
MathRound(x) == Floor(Add(x, Num(1, 2)))

\* completedBlueprints
CompletedBlueprints(blueprints) ==
    LET IsCompleted(b) == b.status = "completed"
    IN  SelectSeq(blueprints, IsCompleted)

\* the reduce of averageClarityScore: the sum of the scores
RECURSIVE SumClarity(_, _)
SumClarity(blueprints, acc) ==
    IF blueprints = <<>> THEN acc
    ELSE SumClarity(Tail(blueprints), acc + Head(blueprints).clarityScore)

\* a variant that averages over all the records
AverageClarityScoreOfAll(blueprints) ==
    IF Len(blueprints) > 0
    THEN MathRound(Div(Int2Num(SumClarity(blueprints, 0)), Int2Num(Len(blueprints))))
    ELSE 0

\* averageClarityScore
AverageClarityScore(blueprints) ==
    IF Len(CompletedBlueprints(blueprints)) > 0
    THEN MathRound(Div(Int2Num(SumClarity(CompletedBlueprints(blueprints), 0)),
                       Int2Num(Len(CompletedBlueprints(blueprints)))))
    ELSE 0

\* the value of the Processing card
ProcessingCount(blueprints) ==
    LET IsProcessing(b) == b.status = "processing"
    IN  Len(SelectSeq(blueprints, IsProcessing))

\* what Dashboard returns for a state of the query: the loading message
\* while isLoading, the error message when there is an error, else the
\* cards
RenderDashboard(q) ==
    IF q.status = "pending" THEN [screen |-> "loading"]
    ELSE IF q.status = "error" THEN [screen |-> "error"]
    ELSE [screen |-> "list",
          total |-> Len(q.data),
          averageClarityScore |-> AverageClarityScore(q.data),
          processing |-> ProcessingCount(q.data),
          cards |-> q.data]

\* the query as Dashboard mounts: no data, and the first fetch on its way
QueryMounted ==
    [status |-> "pending", fetchStatus |-> "fetching", hasData |-> FALSE,
     data |-> <<>>, failureCount |-> 0, fetches |-> 1, failures |-> 0]

InitDashboard ==
    /\ query = QueryMounted
    /\ dashboard = RenderDashboard(QueryMounted)

\* fetchBlueprints returns the rows
FetchSucceeds(rows) ==
    /\ query.fetchStatus = "fetching"
    /\ query' = [query EXCEPT !.status = "success", !.fetchStatus = "idle",
                              !.hasData = TRUE, !.data = rows, !.failureCount = 0]
    /\ dashboard' = RenderDashboard(query')
    /\ UNCHANGED <<relayVars, terminalVars, selectionVars, mapperVars, trackVars, authVars, shellVars>>

\* fetchBlueprints throws (supabase reports an error): the query tries
\* again, after a delay, until it has failed DefaultRetry times more
FetchFails ==
    /\ query.fetchStatus = "fetching"
    /\ IF query.failureCount < DefaultRetry
       THEN /\ query.fetches < MaxFetches
            /\ query' = [query EXCEPT !.failureCount = @ + 1, !.failures = @ + 1,
                                      !.fetches = @ + 1]
       ELSE query' = [query EXCEPT !.failureCount = @ + 1, !.failures = @ + 1,
                                   !.status = "error", !.fetchStatus = "idle"]
    /\ dashboard' = RenderDashboard(query')
    /\ UNCHANGED <<relayVars, terminalVars, selectionVars, mapperVars, trackVars, authVars, shellVars>>

\* the window gets the focus, or the network comes back: a query that is
\* stale (staleTime is 0) and not fetching fetches again; one without data
\* goes back to pending
Refetch ==
    /\ query.fetchStatus = "idle"
    /\ query.fetches < MaxFetches
    /\ query' = [query EXCEPT !.fetchStatus = "fetching", !.failureCount = 0,
                              !.fetches = @ + 1,
                              !.status = IF query.hasData THEN @ ELSE "pending"]
    /\ dashboard' = RenderDashboard(query')
    /\ UNCHANGED <<relayVars, terminalVars, selectionVars, mapperVars, trackVars, authVars, shellVars>>

NextDashboard ==
    \/ \E rows \in BlueprintLists : FetchSucceeds(rows)
    \/ FetchFails
    \/ Refetch

\* ---- sign-in ----

\* how many times authorize is called
MaxAttempts == 2

\* the accounts the auth service knows
Users == { [id |-> "u-ann", email |-> "ann@helixar.io", password |-> "pw-ann"],
           [id |-> "u-bob", email |-> "bob@helixar.io", password |-> "pw-bob"] }

\* what authorize is called with: no credentials at all, or a username and
\* a password, either of which can be empty
NoCredentials == [given |-> FALSE, username |-> "", password |-> ""]
Credentials ==
    {NoCredentials} \cup
    [given : {TRUE}, username : {"", "ann@helixar.io", "bob@helixar.io"},
     password : {"", "pw-ann", "pw-bob"}]

NoUser == [id |-> "", email |-> ""]
NotCalled == [called |-> FALSE, error |-> "", user |-> NoUser]

\* the { data, error } that signInWithPassword resolves to: the user whose
\* email and password these are, or else an error; at any time an error of
\* the service itself; and the answer without an error and without a user
\* that the types allow
SignInWithPassword(email, password) ==
    { [called |-> TRUE, error |-> "", user |-> [id |-> u.id, email |-> u.email]] :
        u \in { v \in Users : v.email = email /\ v.password = password } }
    \cup (IF \E v \in Users : v.email = email /\ v.password = password THEN {}
          ELSE {[called |-> TRUE, error |-> "Invalid login credentials", user |-> NoUser]})
    \cup {[called |-> TRUE, error |-> "fetch failed", user |-> NoUser],
          [called |-> TRUE, error |-> "", user |-> NoUser]}

Null == [null |-> TRUE]

\* a variant that hands the error of the service to the caller
AuthorizeResultTellingWhy(outcome) ==
    IF outcome.error # "" THEN [null |-> FALSE, error |-> outcome.error]
    ELSE IF outcome.user # NoUser
    THEN [id |-> outcome.user.id, name |-> outcome.user.email, email |-> outcome.user.email]
    ELSE Null

\* what authorize returns once signInWithPassword has answered
AuthorizeResult(outcome) ==
    IF outcome.error # "" THEN Null
    ELSE IF outcome.user # NoUser
    THEN [id |-> outcome.user.id, name |-> outcome.user.email, email |-> outcome.user.email]
    ELSE Null

InitAuth == authLog = <<>>

\* authorize(credentials)
Authorize(credentials) ==
    /\ Len(authLog) < MaxAttempts
    /\ IF ~credentials.given \/ credentials.username = "" \/ credentials.password = ""
       THEN authLog' = Append(authLog, [credentials |-> credentials, outcome |-> NotCalled,
                                        threw |-> FALSE, result |-> Null])
       ELSE \E outcome \in SignInWithPassword(credentials.username, credentials.password) :
                authLog' = Append(authLog, [credentials |-> credentials, outcome |-> outcome,
                                            threw |-> FALSE,
                                            result |-> AuthorizeResult(outcome)])
    /\ UNCHANGED <<relayVars, terminalVars, selectionVars, mapperVars, trackVars, dashboardVars, shellVars>>

NextAuth == \E credentials \in Credentials : Authorize(credentials)

\* ---- track model ----

\* one step of the reduce of groupedData
GroupStepKeepingLast(acc, element) ==
    IF element.type \in DOMAIN acc
    THEN [acc EXCEPT ![element.type] = <<element>>]
    ELSE acc @@ (element.type :> <<element>>)

\* the callback of the reduce: push the element on the list of its type,
\* which is made when the type is met first
GroupStep(acc, element) ==
    IF element.type \in DOMAIN acc
    THEN [acc EXCEPT ![element.type] = Append(@, element)]
    ELSE acc @@ (element.type :> <<element>>)

RECURSIVE Reduce(_, _)
Reduce(data, acc) ==
    IF data = <<>> THEN acc ELSE Reduce(Tail(data), GroupStep(acc, Head(data)))

\* groupedData: the reduce starts from {}
GroupedData(data) == Reduce(data, <<>>)

trackOrder == <<"narrative", "visual", "audio", "clarity">>

\* trackOrder.map(...): a row per track type, with the elements of
\* groupedData[trackType] if there are any
RenderTracks(data) ==
    [i \in DOMAIN trackOrder |->
        [trackType |-> trackOrder[i],
         elements |-> IF trackOrder[i] \in DOMAIN GroupedData(data)
                      THEN GroupedData(data)[trackOrder[i]]
                      ELSE <<>>]]

\* the Timeline of the terminal, rendered with mockTimelineData
InitTracks ==
    /\ timelineData = mockTimelineData
    /\ lanes = RenderTracks(mockTimelineData)

\* how many intervals a collection handed to the track model holds
MaxElements == 3

\* intervals to build collections from: two of a type that overlap in time,
\* one of two other types, and, until the last is used, none of clarity
ElementPool == {
    Element("n1", "narrative", 0, 10, "Intro to SaaS Platform", "bg-narrative"),
    Element("n2", "narrative", 5, 30, "Key Features Overview", "bg-narrative"),
    Element("v1", "visual", 5, 12, "Dashboard UI Showcase", "bg-visuals"),
    Element("a1", "audio", 0, 15, "Background Music", "bg-audio"),
    Element("c1", "clarity", 8, 11, "High Clarity Segment", "bg-clarity text-black") }

\* the collections of at most MaxElements intervals, each of its own id
TrackInputs ==
    UNION { { data \in [1..n -> ElementPool] :
                \A i, j \in 1..n : data[i] = data[j] => i = j } :
            n \in 0..MaxElements }

\* a Timeline about to render a collection of intervals
InitTrackModel ==
    /\ InitRelay /\ InitTerminal /\ InitSelection /\ mapper = MapperIdle
    /\ InitDashboard /\ InitAuth /\ InitShell
    /\ timelineData \in TrackInputs
    /\ lanes = <<>>

\* the render of the track rows
RenderTimeline ==
    /\ lanes = <<>>
    /\ lanes' = RenderTracks(timelineData)
    /\ UNCHANGED <<relayVars, terminalVars, selectionVars, mapperVars, timelineData>>
    /\ UNCHANGED <<dashboardVars, authVars, shellVars>>

NextTrackModel == RenderTimeline

SpecTrackModel == InitTrackModel /\ [][NextTrackModel]_vars

\* ---- the time-to-pixel mapping, with the rounding of the arithmetic ----

RECURSIVE Pow2(_)
Pow2(k) == IF k = 0 THEN 1 ELSE 2 * Pow2(k - 1)

\* n / d = (n' / d') * 2^e with 2^(MantissaBits-1) <= n' / d' < 2^MantissaBits
RECURSIVE Normalize(_, _, _)
Normalize(n, d, e) ==
    IF n >= d * Pow2(MantissaBits) THEN Normalize(n, 2 * d, e + 1)
    ELSE IF 2 * n < d * Pow2(MantissaBits) THEN Normalize(2 * n, d, e - 1)
    ELSE <<n, d, e>>

\* the integer nearest to n / d, the even one of two that are as near
RoundHalfEven(n, d) ==
    LET q == n \div d
        r == n % d
    IN  IF 2 * r > d \/ (2 * r = d /\ q % 2 = 1) THEN q + 1 ELSE q

\* the floating-point number nearest to x
RoundBits(x) ==
    IF ~IsFinite(x) \/ x.n = 0 THEN x
    ELSE LET s == Normalize(Abs(x.n), x.d, 0)
             m == RoundHalfEven(s[1], s[2])
         IN  IF s[3] >= 0 THEN Num(Sign(x.n) * m * Pow2(s[3]), 1)
             ELSE Num(Sign(x.n) * m, Pow2(-s[3]))

\* a * b and a / b as the machine computes them
FMul(a, b) == RoundBits(Mul(a, b))
FDiv(a, b) == RoundBits(Div(a, b))

\* totalWidth, line 125
TotalWidthRounded(duration, zoom) ==
    FMul(FMul(duration, Int2Num(PIXELS_PER_SECOND_BASE)), zoom)

\* a variant that multiplies by the base of 50 where the duration belongs
IndicatorPositionSkewed(time, duration, zoom) ==
    FMul(FDiv(time, Int2Num(PIXELS_PER_SECOND_BASE)), TotalWidthRounded(duration, zoom))

\* indicatorPosition, line 186
IndicatorPosition(time, duration, zoom) ==
    FMul(FDiv(time, duration), TotalWidthRounded(duration, zoom))

\* newTime of handleTimelineClick for a click at content offset clickX
NewTime(clickX, duration, zoom) ==
    FMul(FDiv(clickX, TotalWidthRounded(duration, zoom)), duration)

\* the duration, zoomLevel and currentTime props a Timeline is given
MapperDurations == {0, 3, 154}
MapperZooms == {Num(1, 2), Int2Num(1), Num(3, 2), Int2Num(5)}
\* the currentTime props tried with a duration: every whole second of the
\* media, and 0 and 1 with no media
MapperTimes(d) == IF d = 0 THEN {0, 1} ELSE 0..d

\* a Timeline mounted with the props duration, zoomLevel and currentTime
MapperProps ==
    UNION { { [stage |-> "props", duration |-> Int2Num(d), zoomLevel |-> z,
               currentTime |-> Int2Num(t), element |-> mockTimelineData[2],
               indicatorPosition |-> NaN, left |-> NaN, width |-> NaN,
               newTime |-> NaN, error |-> "none", seeks |-> <<>>] :
              z \in MapperZooms, t \in MapperTimes(d) } :
            d \in MapperDurations }

InitMapper ==
    /\ InitRelay /\ InitTerminal /\ InitSelection /\ InitTracks /\ InitDashboard /\ InitAuth
    /\ InitShell
    /\ mapper \in MapperProps

\* the render: indicatorPosition and the style of an element; nothing
\* looks at the duration, and nothing is thrown
MapperRender ==
    /\ mapper.stage = "props"
    /\ mapper' = [mapper EXCEPT
         !.stage = "rendered",
         !.indicatorPosition =
             IndicatorPosition(mapper.currentTime, mapper.duration, mapper.zoomLevel),
         !.left = FMul(FDiv(Int2Num(mapper.element.start), mapper.duration),
                       TotalWidthRounded(mapper.duration, mapper.zoomLevel)),
         !.width = FMul(FDiv(Int2Num(mapper.element.end - mapper.element.start),
                             mapper.duration),
                        TotalWidthRounded(mapper.duration, mapper.zoomLevel))]
    /\ UNCHANGED <<relayVars, terminalVars, selectionVars, trackVars, dashboardVars, authVars, shellVars>>

\* handleTimelineClick for a click on the playback indicator: clickX is the
\* indicator's position; onScrub is handed newTime as it is
MapperClick ==
    /\ mapper.stage = "rendered"
    /\ LET newTime == NewTime(mapper.indicatorPosition, mapper.duration, mapper.zoomLevel)
       IN  mapper' = [mapper EXCEPT !.stage = "clicked", !.newTime = newTime,
                                    !.seeks = Append(@, newTime)]
    /\ UNCHANGED <<relayVars, terminalVars, selectionVars, trackVars, dashboardVars, authVars, shellVars>>

NextMapper == MapperRender \/ MapperClick

SpecMapper == InitMapper /\ [][NextMapper]_vars

InitApp ==
    /\ InitSelection /\ mapper = MapperIdle /\ InitTracks /\ InitDashboard /\ InitAuth
    /\ InitShell

Init == InitRelay /\ InitTerminal /\ InitApp

\* ---- playback controller ----

\* a variant that issues the command and leaves isPlaying alone
TogglePlaybackNoFlip ==
    /\ \E started \in BOOLEAN :
        videoPaused' = IF isPlaying THEN TRUE ELSE ~started
    /\ lastCommand' = IF isPlaying THEN "pause" ELSE "play"
    /\ lastEvent' = Event("togglePlayback", NoTarget)
    /\ UNCHANGED <<isPlaying, currentTime, videoTime>>
    /\ UNCHANGED <<relayVars, appVars, zoomVars, scrollVars, dragVars, pointerVars>>

\* togglePlayback: pause() always pauses; play() starts the playback, or
\* does not (no playable source, playback not allowed) and its promise is
\* rejected
TogglePlayback ==
    /\ \E started \in BOOLEAN :
        videoPaused' = IF isPlaying THEN TRUE ELSE ~started
    /\ lastCommand' = IF isPlaying THEN "pause" ELSE "play"
    /\ isPlaying' = ~isPlaying
    /\ lastEvent' = Event("togglePlayback", NoTarget)
    /\ UNCHANGED <<currentTime, videoTime>>
    /\ UNCHANGED <<relayVars, appVars, zoomVars, scrollVars, dragVars, pointerVars>>

\* seekTo: the assignment to video.currentTime throws a TypeError for a
\* value that is not finite, and setCurrentTime is not reached then
SeekTo(time) ==
    IF IsFinite(time)
    THEN videoTime' = time /\ currentTime' = time
    ELSE UNCHANGED <<videoTime, currentTime>>

\* a variant that does not stop at the duration
SkipForwardTimeUnbounded(time) == Add(time, Int2Num(SkipSeconds))

\* newTime of skipForward
SkipForwardTime(time) == MathMin(Add(time, Int2Num(SkipSeconds)), Int2Num(Duration))

\* newTime of skipBackward
SkipBackwardTime(time) == MathMax(Sub(time, Int2Num(SkipSeconds)), Int2Num(0))

SkipForward ==
    /\ SeekTo(SkipForwardTime(currentTime))
    /\ lastEvent' = Event("skipForward", SkipForwardTime(currentTime))
    /\ UNCHANGED <<isPlaying, videoPaused, lastCommand>>
    /\ UNCHANGED <<relayVars, appVars, zoomVars, scrollVars, dragVars, pointerVars>>

SkipBackward ==
    /\ SeekTo(SkipBackwardTime(currentTime))
    /\ lastEvent' = Event("skipBackward", SkipBackwardTime(currentTime))
    /\ UNCHANGED <<isPlaying, videoPaused, lastCommand>>
    /\ UNCHANGED <<relayVars, appVars, zoomVars, scrollVars, dragVars, pointerVars>>

\* handleTimeUpdate, the 'timeupdate' listener
TimeUpdate ==
    /\ currentTime' = videoTime
    /\ lastEvent' = Event("timeupdate", NoTarget)
    /\ UNCHANGED <<isPlaying, videoTime, videoPaused, lastCommand>>
    /\ UNCHANGED <<relayVars, appVars, zoomVars, scrollVars, dragVars, pointerVars>>

\* The media element plays on to a later position; at the end of the media
\* it pauses itself. No handler of the component runs.
MediaAdvance ==
    /\ ~videoPaused
    /\ \E p \in MediaPositions :
        /\ Lt(videoTime, p)
        /\ videoTime' = p
        /\ videoPaused' = (p = Int2Num(Duration))
    /\ lastEvent' = Event("media", NoTarget)
    /\ UNCHANGED <<isPlaying, currentTime, lastCommand>>
    /\ UNCHANGED <<relayVars, appVars, zoomVars, scrollVars, dragVars, pointerVars>>

\* The media element finishes a seek: a position outside the media is
\* moved to its nearest end. No handler of the component runs.
MediaSeeked ==
    /\ ~(Le(Int2Num(0), videoTime) /\ Le(videoTime, Int2Num(Duration)))
    /\ videoTime' = IF Lt(videoTime, Int2Num(0)) THEN Int2Num(0) ELSE Int2Num(Duration)
    /\ lastEvent' = Event("media", NoTarget)
    /\ UNCHANGED <<isPlaying, currentTime, videoPaused, lastCommand>>
    /\ UNCHANGED <<relayVars, appVars, zoomVars, scrollVars, dragVars, pointerVars>>

\* ---- zoom controls ----

\* onZoomChange(zoom) = setZoomLevel(zoom); the container lays out again and
\* keeps scrollLeft within its new range
SetZoomLevel(type, zoom) ==
    /\ zoomLevel' = zoom
    /\ scrollLeft' = ClampScroll(zoom, scrollLeft)
    /\ scrollEventQueued' = (scrollEventQueued \/ scrollLeft' # scrollLeft)
    /\ lastEvent' = Event(type, NoTarget)
    /\ UNCHANGED <<timelineScrollX, syncEffect>>
    /\ UNCHANGED <<relayVars, appVars, playbackVars, dragVars, pointerVars>>

\* the zoom-out button
ZoomOut == SetZoomLevel("zoomOut", MathMax(ZoomMin, Sub(zoomLevel, ZoomStep)))

\* the zoom-in button
ZoomIn == SetZoomLevel("zoomIn", MathMin(ZoomMax, Add(zoomLevel, ZoomStep)))

\* handleZoomChange, the slider's onValueChange
HandleZoomChange(value) == SetZoomLevel("zoomSlider", value)

\* the onChange of the zoom input
ZoomInputChange(chars) == SetZoomLevel("zoomInput", ParseFloat(chars))

\* ---- pointer on the timeline ----

\* handleMouseDown
HandleMouseDown(x) ==
    /\ mouseButton = "up"
    /\ ~clickQueued
    /\ mouseButton' = "down"
    /\ pointerX' = x
    /\ isDragging' = TRUE
    /\ dragStartX' = x
    /\ startScrollX' = scrollLeft
    /\ lastEvent' = Event("mousedown", NoTarget)
    /\ UNCHANGED clickQueued
    /\ UNCHANGED <<relayVars, appVars, playbackVars, zoomVars, scrollVars>>

\* a variant that listens for the mouseup on the timeline container only
HandleMouseUpOnTimelineOnly ==
    /\ mouseButton = "down"
    /\ mouseButton' = "up"
    /\ \E onTimeline \in BOOLEAN :
        /\ clickQueued' = onTimeline
        /\ isDragging' = IF onTimeline THEN FALSE ELSE isDragging
    /\ lastEvent' = Event("mouseup", NoTarget)
    /\ UNCHANGED <<pointerX, dragStartX, startScrollX>>
    /\ UNCHANGED <<relayVars, appVars, playbackVars, zoomVars, scrollVars>>

\* handleMouseUp, on window: the button is released, on the timeline (a
\* 'click' follows) or off it
HandleMouseUp ==
    /\ mouseButton = "down"
    /\ mouseButton' = "up"
    /\ isDragging' = FALSE
    /\ \E onTimeline \in BOOLEAN : clickQueued' = onTimeline
    /\ lastEvent' = Event("mouseup", NoTarget)
    /\ UNCHANGED <<pointerX, dragStartX, startScrollX>>
    /\ UNCHANGED <<relayVars, appVars, playbackVars, zoomVars, scrollVars>>

\* a variant that moves the content with the pointer delta, not against it
DragScrollLeftSameWay(start, anchor, x) == start + (x - anchor)

\* the value handleMouseMove assigns to scrollLeft: startScrollX - deltaX
DragScrollLeft(start, anchor, x) == start - (x - anchor)

\* handleMouseMove, on window; no move comes between a mouseup on the
\* timeline and the 'click' the browser dispatches right after it
HandleMouseMove(x) ==
    /\ ~clickQueued
    /\ isDragging => DragScrollLeft(startScrollX, dragStartX, x) <= MaxDragScroll
    /\ pointerX' = x
    /\ IF isDragging
       THEN /\ scrollLeft' = ClampScroll(zoomLevel, DragScrollLeft(startScrollX, dragStartX, x))
            /\ scrollEventQueued' = (scrollEventQueued \/ scrollLeft' # scrollLeft)
       ELSE UNCHANGED <<scrollLeft, scrollEventQueued>>
    /\ lastEvent' = Event("mousemove", NoTarget)
    /\ UNCHANGED <<timelineScrollX, syncEffect, mouseButton, clickQueued>>
    /\ UNCHANGED <<relayVars, appVars, playbackVars, zoomVars, dragVars>>

\* handleScroll, the container's 'scroll' listener: onScrollChange(scrollLeft)
\* is setTimelineScrollX. A new value renders Timeline again with it as
\* scrollX; the scroll-sync effect of the render before, if it has not run
\* yet, runs first, and the effect of the new render waits.
HandleScroll ==
    /\ scrollEventQueued
    /\ IF scrollLeft = timelineScrollX
       THEN /\ scrollEventQueued' = FALSE
            /\ UNCHANGED <<timelineScrollX, scrollLeft, syncEffect>>
       ELSE /\ timelineScrollX' = scrollLeft
            /\ scrollLeft' = IF syncEffect.pending /\ scrollLeft # syncEffect.scrollX
                             THEN ClampScroll(zoomLevel, syncEffect.scrollX)
                             ELSE scrollLeft
            /\ scrollEventQueued' = (scrollLeft' # scrollLeft)
            /\ syncEffect' = [pending |-> TRUE, scrollX |-> scrollLeft]
    /\ lastEvent' = Event("scroll", NoTarget)
    /\ UNCHANGED <<relayVars, appVars, playbackVars, zoomVars, dragVars, pointerVars>>

\* the scroll-sync effect (useEffect on [scrollX])
SyncEffect ==
    /\ syncEffect.pending
    /\ syncEffect' = [syncEffect EXCEPT !.pending = FALSE]
    /\ scrollLeft' = IF scrollLeft # syncEffect.scrollX
                     THEN ClampScroll(zoomLevel, syncEffect.scrollX)
                     ELSE scrollLeft
    /\ scrollEventQueued' = (scrollEventQueued \/ scrollLeft' # scrollLeft)
    /\ lastEvent' = Event("syncEffect", NoTarget)
    /\ UNCHANGED timelineScrollX
    /\ UNCHANGED <<relayVars, appVars, playbackVars, zoomVars, dragVars, pointerVars>>

\* a variant that takes the pointer position for the content offset
ClickTimeNoScroll(x, scroll, zoom) ==
    Mul(Div(Int2Num(x), TotalWidth(Duration, zoom)), Int2Num(Duration))

\* newTime of handleTimelineClick
ClickTime(x, scroll, zoom) ==
    Mul(Div(Int2Num(x + scroll), TotalWidth(Duration, zoom)), Int2Num(Duration))

\* handleTimelineClick, a click on the track background: onScrub(newTime),
\* which is handleTimelineScrub and seekTo
HandleTimelineClick ==
    /\ clickQueued
    /\ clickQueued' = FALSE
    /\ IF isDragging
       THEN /\ UNCHANGED <<videoTime, currentTime>>
            /\ lastEvent' = Event("click", NoTarget)
       ELSE /\ SeekTo(ClickTime(pointerX, scrollLeft, zoomLevel))
            /\ lastEvent' = Event("seek", ClickTime(pointerX, scrollLeft, zoomLevel))
    /\ UNCHANGED <<isPlaying, videoPaused, lastCommand, mouseButton, pointerX>>
    /\ UNCHANGED <<relayVars, appVars, zoomVars, scrollVars, dragVars>>

\* ---- intervals and selection ----

\* ml-20 of the element area of a lane: 5rem, in pixels
LaneOffset == 80

\* left of getElementStyle
ElementLeft(element, duration, zoom) ==
    Mul(Div(Int2Num(element.start), Int2Num(duration)), TotalWidth(duration, zoom))

\* width of getElementStyle
ElementWidth(element, duration, zoom) ==
    Mul(Div(Int2Num(element.end - element.start), Int2Num(duration)),
        TotalWidth(duration, zoom))

\* where the playback indicator is drawn in the content of the scroll
\* container: left: indicatorPosition of an element positioned in it
IndicatorLeftEdge(time, zoom) ==
    Mul(Div(time, Int2Num(Duration)), TotalWidth(Duration, zoom))

\* where the left edge of an interval is drawn in the content of the scroll
\* container: left of getElementStyle within the element area of its lane
ElementLeftEdge(element, zoom) ==
    Add(Int2Num(LaneOffset), ElementLeft(element, Duration, zoom))

\* where a lane draws the time: the left edge of an interval starting then
LaneLeftEdge(time, zoom) ==
    Add(Int2Num(LaneOffset),
        Mul(Div(time, Int2Num(Duration)), TotalWidth(Duration, zoom)))

\* the pointer at clientX x is within the box of the element, horizontally
PointerOnElement(element, x, scroll, zoom) ==
    LET left == Add(Int2Num(LaneOffset), ElementLeft(element, Duration, zoom))
        right == Add(left, ElementWidth(element, Duration, zoom))
    IN  Le(left, Int2Num(x + scroll)) /\ Lt(Int2Num(x + scroll), right)

\* what the onClick of an element hands to onElementSelect
SelectionOf(element) ==
    [type |-> element.type, id |-> element.id, timeStart |-> element.start,
     timeEnd |-> element.end, data |-> element]

\* a variant without e.stopPropagation(): the click goes on to the
\* container's handleTimelineClick
OnElementClickBubbling(element) ==
    /\ clickQueued
    /\ PointerOnElement(element, pointerX, scrollLeft, zoomLevel)
    /\ clickQueued' = FALSE
    /\ selectedElement' = SelectionOf(element)
    /\ SeekTo(ClickTime(pointerX, scrollLeft, zoomLevel))
    /\ lastEvent' = Event("select", NoTarget)
    /\ UNCHANGED <<isPlaying, videoPaused, lastCommand, mouseButton, pointerX>>
    /\ UNCHANGED <<relayVars, restVars, zoomVars, scrollVars, dragVars>>

\* the onClick of an element: stopPropagation, then onElementSelect, which is
\* handleElementSelect and setSelectedElement
OnElementClick(element) ==
    /\ clickQueued
    /\ PointerOnElement(element, pointerX, scrollLeft, zoomLevel)
    /\ clickQueued' = FALSE
    /\ selectedElement' = SelectionOf(element)
    /\ lastEvent' = Event("select", NoTarget)
    /\ UNCHANGED <<playbackVars, mouseButton, pointerX>>
    /\ UNCHANGED <<relayVars, restVars, zoomVars, scrollVars, dragVars>>

\* where the wheel or the scrollbar takes the container
ScrollTargets == {3050}

\* the user scrolls the container (overflow-x-auto) with the wheel or the
\* scrollbar; no handler of the component runs until the 'scroll' event
NativeScroll(v) ==
    /\ ~clickQueued
    /\ scrollLeft' = ClampScroll(zoomLevel, v)
    /\ scrollLeft' # scrollLeft
    /\ scrollEventQueued' = TRUE
    /\ lastEvent' = Event("nativeScroll", NoTarget)
    /\ UNCHANGED <<timelineScrollX, syncEffect>>
    /\ UNCHANGED <<relayVars, appVars, playbackVars, zoomVars, dragVars, pointerVars>>

\* playback, click-to-seek and the zoom input
NextPlayback ==
    \/ TogglePlayback
    \/ SkipForward
    \/ SkipBackward
    \/ TimeUpdate
    \/ MediaAdvance
    \/ MediaSeeked
    \/ \E chars \in ZoomInputs : ZoomInputChange(chars)
    \/ \E x \in PointerXs : HandleMouseDown(x)
    \/ HandleMouseUp
    \/ HandleTimelineClick

\* the zoom controls and click-to-seek
NextZoom ==
    \/ ZoomOut
    \/ ZoomIn
    \/ \E value \in SliderValues : HandleZoomChange(value)
    \/ \E chars \in ZoomInputs : ZoomInputChange(chars)
    \/ \E x \in PointerXs : HandleMouseDown(x)
    \/ HandleMouseUp
    \/ HandleTimelineClick

\* dragging and scrolling the timeline, and the zoom input
NextTimeline ==
    \/ \E x \in PointerXs : HandleMouseDown(x)
    \/ \E x \in PointerXs : HandleMouseMove(x)
    \/ HandleMouseUp
    \/ HandleScroll
    \/ SyncEffect
    \/ \E chars \in ZoomInputs : ZoomInputChange(chars)

\* a whole pointer gesture on the track: down, moves, up, click
NextGesture ==
    \/ \E x \in PointerXs : HandleMouseDown(x)
    \/ \E x \in PointerXs : HandleMouseMove(x)
    \/ HandleMouseUp
    \/ HandleTimelineClick

\* clicks on the track and on the intervals, at any scroll offset and zoom
NextClick ==
    \/ \E x \in PointerXs : HandleMouseDown(x)
    \/ HandleMouseUp
    \/ HandleTimelineClick
    \/ \E i \in DOMAIN mockTimelineData : OnElementClick(mockTimelineData[i])
    \/ \E v \in ScrollTargets : NativeScroll(v)
    \/ \E value \in SliderValues : HandleZoomChange(value)

SpecRelay == Init /\ [][NextRelay]_vars

SpecPlayback == Init /\ [][NextPlayback]_vars

SpecZoom == Init /\ [][NextZoom]_vars

SpecTimeline == Init /\ [][NextTimeline]_vars

SpecGesture == Init /\ [][NextGesture]_vars

SpecClick == Init /\ [][NextClick]_vars

SpecDashboard == Init /\ [][NextDashboard]_vars

SpecAuth == Init /\ [][NextAuth]_vars

\* a layout of any build, with or without a session, at any page
InitLayouts ==
    /\ InitRelay /\ InitTerminal /\ InitSelection /\ mapper = MapperIdle /\ InitTracks
    /\ InitDashboard /\ InitAuth /\ InitCreation /\ InitView
    /\ boundary \in { MountedBoundary(nodeEnv, session, route) :
                        nodeEnv \in NodeEnvs, session \in Sessions, route \in Routes }

SpecBoundary == InitLayouts /\ [][NextBoundary]_vars

SpecCreation == Init /\ [][NextCreation]_vars

SpecView == Init /\ [][NextView]_vars

(***************************************************************************)
(* Claims about the realtime relay                                         *)
(***************************************************************************)
\* the positions of inbox[c] that hold the relayed message number i
Deliveries(c, i) == {k \in 1..Len(inbox[c]) : inbox[c][k].msg = i}

\* C1: a message sent by a connection is delivered (once) to every other
\* connection that is open at that moment, and to no one else: never back to
\* the sender, never to a connection that was not open.
C1_RelayedToOpenOthers ==
    \A i \in 1..Len(sent) : \A c \in Conns :
        Cardinality(Deliveries(c, i)) =
            IF c \in sent[i].open /\ c # sent[i].from THEN 1 ELSE 0

\* three connections are open, 1 sends, 2 and 3 have the message and 1 not
C1_Witness ==
    \E i \in 1..Len(sent) :
        /\ sent[i].open = Conns
        /\ sent[i].from = 1
        /\ Deliveries(2, i) # {} /\ Deliveries(3, i) # {}
        /\ Deliveries(1, i) = {}

\* C2: the relay keeps no history and relays payloads unmodified: every
\* frame a connection got after the welcome carries exactly the payload that
\* some other connection sent while the receiver was open.
C2_UnmodifiedAndNoHistory ==
    \A c \in Conns : \A k \in 1..Len(inbox[c]) :
        inbox[c][k].msg # 0 =>
            \E i \in 1..Len(sent) :
                /\ sent[i].from # c
                /\ c \in sent[i].open
                /\ sent[i].payload = inbox[c][k].data

\* C3: a connection is sent the welcome text once, as the first frame it
\* gets, and a new connection sends nothing to the other connections.
WelcomeFirstAndOnce ==
    \A c \in Conns :
        IF readyState[c] = "NONE" THEN inbox[c] = <<>>
        ELSE /\ Len(inbox[c]) >= 1
             /\ inbox[c][1] = WelcomeFrame
             /\ \A k \in 2..Len(inbox[c]) : inbox[c][k].msg # 0

ConnectionSilentToOthers ==
    \A c \in Conns :
        (readyState[c] = "NONE" /\ readyState'[c] # "NONE") =>
            \A d \in Conns \ {c} : inbox'[d] = inbox[d]

\* C3: a newly opened connection receives the welcome text as its first
\* message and exactly once, and the opening sends nothing to the others.
C3_WelcomeOnceFirst == []WelcomeFirstAndOnce /\ [][ConnectionSilentToOthers]_vars

\* a connection got the welcome and then a relayed message, and a later
\* connection joined while another one was open
C3_Witness ==
    \E c, d \in Conns :
        /\ c # d
        /\ Len(inbox[c]) >= 2
        /\ inbox[c][1].msg = 0
        /\ inbox[c][2].msg # 0
        /\ Len(inbox[d]) = 1
        /\ readyState[c] = "OPEN" /\ readyState[d] = "OPEN"

\* C4: a connection that is closing or closed gets nothing more, a closure
\* sends nothing to anyone, and the connections that remain open still relay
\* among themselves.
NothingToClosed ==
    \A c \in Conns :
        readyState[c] \in {"CLOSING", "CLOSED"} => inbox'[c] = inbox[c]

ClosureIsSilent ==
    (\E c \in Conns : readyState[c] = "OPEN" /\ readyState'[c] # "OPEN")
        => inbox' = inbox

RemainingStillRelay ==
    \A i \in 1..Len(sent) :
        sent[i].closed # {} =>
            /\ \A c \in sent[i].open \ {sent[i].from} : Deliveries(c, i) # {}
            /\ \A c \in sent[i].closed : Deliveries(c, i) = {}

\* C4: a closed connection receives no later relay, its closure sends
\* nothing to the others, and the remaining connections keep relaying.
C4_ClosedGetsNothing ==
    /\ [][NothingToClosed]_vars
    /\ [][ClosureIsSilent]_vars
    /\ []RemainingStillRelay

\* a message was relayed between two open connections while a third one
\* was closing, still registered in wss.clients
C4_Witness ==
    \E i \in 1..Len(sent) : \E c \in Conns :
        /\ c \in sent[i].closed
        /\ c \in clients
        /\ \E d \in sent[i].open \ {sent[i].from} : Deliveries(d, i) # {}

(***************************************************************************)
(* Claims about the playback controller                                    *)
(***************************************************************************)
InRange(time) == Le(Int2Num(0), time) /\ Le(time, Int2Num(Duration))

\* C5: seek clamps to [0, duration]: after any sequence of seeks, skips
\* and time-update signals currentTime is within [0, duration].
C5_CurrentTimeInRange == InRange(currentTime)

\* C6: skipping forward from currentTime t yields min(t + 10, duration) and
\* skipping backward yields max(t - 10, 0), as currentTime and as the
\* position of the media element; from a t within [0, duration] the result
\* is within [0, duration].
C6_SkipClamped ==
    /\ lastEvent.type = "skipForward" =>
        /\ currentTime = MathMin(Add(lastEvent.before, Int2Num(10)), Int2Num(154))
        /\ videoTime = currentTime
        /\ InRange(lastEvent.before) => InRange(currentTime)
    /\ lastEvent.type = "skipBackward" =>
        /\ currentTime = MathMax(Sub(lastEvent.before, Int2Num(10)), Int2Num(0))
        /\ videoTime = currentTime
        /\ InRange(lastEvent.before) => InRange(currentTime)

\* skipping forward from 150 gave 154
C6_Witness ==
    /\ lastEvent.type = "skipForward"
    /\ lastEvent.before = Int2Num(150)
    /\ currentTime = Int2Num(154)

\* C7: togglePlayback flips isPlaying and issues play when isPlaying becomes
\* true and pause when it becomes false; a second toggle right after
\* restores the value isPlaying had before the first.
ToggleFlipped ==
    lastEvent.type = "togglePlayback" =>
        /\ isPlaying = ~lastEvent.wasPlaying
        /\ lastCommand = IF isPlaying THEN "play" ELSE "pause"

SecondToggleRestores ==
    (lastEvent.type = "togglePlayback" /\ lastEvent'.type = "togglePlayback")
        => isPlaying' = lastEvent.wasPlaying

\* C7: toggle flips isPlaying and commands the matching play or pause; a
\* second toggle right after restores the value before the first.
C7_ToggleFlips == []ToggleFlipped /\ [][SecondToggleRestores]_vars

\* two toggles in a row: playing again stopped, pause was the last command
C7_Witness ==
    /\ lastEvent.type = "togglePlayback"
    /\ lastEvent.wasPlaying
    /\ ~isPlaying
    /\ lastCommand = "pause"

\* C8: right after a seek (a click on the track, a skip) the position of
\* the media element and currentTime both are the seek target, and right
\* after a time-update signal currentTime is the position of the media
\* element.
C8_SeekAndTimeUpdateAgree ==
    /\ lastEvent.type \in {"seek", "skipForward", "skipBackward"} =>
        /\ videoTime = lastEvent.target
        /\ currentTime = lastEvent.target
    /\ lastEvent.type = "timeupdate" => currentTime = videoTime

(***************************************************************************)
(* Claims about the timeline                                               *)
(***************************************************************************)
\* C9: after any sequence of zoom-out, zoom-in, slider and numeric-entry
\* events zoomLevel is within [0.5, 5.0].
C9_ZoomInRange == Le(Num(1, 2), zoomLevel) /\ Le(zoomLevel, Int2Num(5))

\* C10, as claimed: while dragging, a pointer-move sets the scroll offset to
\* (scroll offset at pointer-down) - (pointer x - anchor x).
C10_DragOneToOne ==
    (lastEvent.type = "mousemove" /\ isDragging) =>
        scrollLeft = startScrollX - (pointerX - dragStartX)

\* C10, amended: while dragging, a pointer-move sets the scroll offset to
\* (scroll offset at pointer-down) - (pointer x - anchor x), limited to the
\* scroll range of the container, [0, scrollWidth - clientWidth].
C10_DragOneToOneInScrollRange ==
    (lastEvent.type = "mousemove" /\ isDragging) =>
        LET v == startScrollX - (pointerX - dragStartX)
            max == MaxScrollLeft(zoomLevel)
        IN  scrollLeft = IF v < 0 THEN 0 ELSE IF v > max THEN max ELSE v

\* a drag started at scroll offset 100, the pointer moved 30 to the left,
\* the scroll offset is 130
C10_Witness ==
    /\ lastEvent.type = "mousemove"
    /\ isDragging
    /\ startScrollX = 100
    /\ pointerX - dragStartX = -30
    /\ scrollLeft = 130

\* C11: a mousedown on the track starts a drag and records the pointer
\* position and the scroll offset of that moment; a mouseup, on the
\* timeline or off it, always ends the drag; a mousemove while no drag is
\* on leaves the scroll offset alone.
C11_DragStateMachine ==
    [][ /\ lastEvent'.type = "mousedown" =>
            isDragging' /\ dragStartX' = pointerX' /\ startScrollX' = scrollLeft
        /\ lastEvent'.type = "mouseup" => ~isDragging'
        /\ (lastEvent'.type = "mousemove" /\ ~isDragging) => scrollLeft' = scrollLeft
      ]_vars

\* a drag that scrolled was ended off the timeline, and the pointer moved on
C11_Witness ==
    /\ lastEvent.type = "mousemove"
    /\ ~isDragging
    /\ ~clickQueued
    /\ scrollLeft > 0
    /\ pointerX # dragStartX

\* C12: a seek is emitted only by a mousedown-then-up with no pointer
\* movement in between: when the pointer moved between the mousedown and the
\* mouseup, the release on the track emits no seek.
C12_NoSeekAfterDrag == lastEvent.type = "seek" => pointerX = dragStartX

\* C13: a click on the track background at content offset p = pointer x
\* (from the timeline's left edge) + scroll offset emits
\* seek(p / (duration * 50 * zoom) * duration); with duration 154 and zoom 1
\* a click at pixel 3850 seeks to 77.
C13_ClickSeeksToMappedTime ==
    lastEvent.type = "seek" =>
        LET p == pointerX + scrollLeft
            time == Num(p * 154 * zoomLevel.d, 154 * 50 * zoomLevel.n)
        IN  /\ lastEvent.target = time
            /\ currentTime = time
            /\ videoTime = time
            /\ (p = 3850 /\ zoomLevel = Int2Num(1)) => currentTime = Int2Num(77)

\* the click at pixel 3850 of the example, 800 px into a container scrolled
\* by 3050 px
C13_Witness ==
    /\ lastEvent.type = "seek"
    /\ zoomLevel = Int2Num(1)
    /\ pointerX + scrollLeft = 3850
    /\ scrollLeft > 0
    /\ currentTime = Int2Num(77)

\* C14: a click on an interval makes the selection exactly that interval's
\* {type, id, timeStart, timeEnd, data}, whatever was selected before, and
\* seeks nowhere: currentTime and the media position stay as they were.
C14_SelectReplacesAndDoesNotSeek ==
    [][ lastEvent'.type = "select" =>
            /\ \E i \in DOMAIN mockTimelineData :
                LET element == mockTimelineData[i]
                IN  /\ PointerOnElement(element, pointerX, scrollLeft, zoomLevel)
                    /\ selectedElement' =
                         [type |-> element.type, id |-> element.id,
                          timeStart |-> element.start, timeEnd |-> element.end,
                          data |-> element]
            /\ currentTime' = currentTime
            /\ videoTime' = videoTime
      ]_vars

\* an interval is selected after a seek moved the playhead, which stays
C14_Witness ==
    /\ lastEvent.type = "select"
    /\ selectedElement.id = "n2"
    /\ selectedElement.data.text = "Key Features Overview"
    /\ currentTime # Int2Num(0)

\* C15, as claimed: for a duration > 0, a zoom in [0.5, 5] and t in
\* [0, duration], t to pixels and back to time returns t.
C15_RoundTripExact ==
    (mapper.stage = "clicked" /\ Lt(Int2Num(0), mapper.duration)) =>
        mapper.newTime = mapper.currentTime

\* C15, amended: t to pixels and back to time returns t up to the rounding
\* of the floating-point operations, a relative error of at most 8 units of
\* roundoff, 2^(3 - MantissaBits).
C15_RoundTripWithinRounding ==
    (mapper.stage = "clicked" /\ Lt(Int2Num(0), mapper.duration)) =>
        LET diff == Sub(mapper.newTime, mapper.currentTime)
            tolerance == Mul(mapper.currentTime, Num(8, Pow2(MantissaBits)))
        IN  /\ IsFinite(mapper.newTime)
            /\ Le(Neg(tolerance), diff)
            /\ Le(diff, tolerance)

\* a round trip that comes back next to t, not on it
C15_Witness ==
    /\ mapper.stage = "clicked"
    /\ mapper.duration = Int2Num(154)
    /\ mapper.newTime # mapper.currentTime
    /\ Lt(Int2Num(0), mapper.newTime)

\* C16: with duration 0 the mapping is rejected with InvalidDuration: no
\* indicator position, element position or click time is computed, and no
\* NaN or Infinity reaches the seek.
C16_ZeroDurationRejected ==
    (mapper.stage \in {"rendered", "clicked"} /\ mapper.duration = Int2Num(0)) =>
        /\ mapper.error = "InvalidDuration"
        /\ \A i \in DOMAIN mapper.seeks : IsFinite(mapper.seeks[i])

\* the elements of data of a category, in the order of data
OfCategory(data, category) ==
    LET IsOfCategory(element) == element.type = category
    IN  SelectSeq(data, IsOfCategory)

\* C17: whatever the collection, four lanes are rendered, narrative, visual,
\* audio, clarity in this order, a lane without intervals included; a lane
\* holds the intervals of its category, all of them, overlapping or not, in
\* the order of the collection, so that every interval is in one lane only.
C17_FourLanesInOrder ==
    lanes # <<>> =>
        /\ Len(lanes) = 4
        /\ lanes[1].trackType = "narrative"
        /\ lanes[2].trackType = "visual"
        /\ lanes[3].trackType = "audio"
        /\ lanes[4].trackType = "clarity"
        /\ \A i \in 1..4 : lanes[i].elements = OfCategory(timelineData, lanes[i].trackType)
        /\ \A k \in DOMAIN timelineData :
            Cardinality({ <<i, j>> \in (1..4) \X (1..Len(timelineData)) :
                            /\ j \in DOMAIN lanes[i].elements
                            /\ lanes[i].elements[j] = timelineData[k] }) = 1

\* two overlapping narrative intervals, the later one first, and empty
\* audio and clarity lanes
C17_Witness ==
    /\ Len(lanes) = 4
    /\ Len(timelineData) = 3
    /\ Len(lanes[1].elements) = 2
    /\ lanes[1].elements[1].id = "n2"
    /\ lanes[1].elements[2].id = "n1"
    /\ lanes[3].elements = <<>>
    /\ lanes[4].elements = <<>>

\* the indices of the records of a status
WithStatus(records, status) == { i \in DOMAIN records : records[i].status = status }

\* the sum of the clarity scores of the records at the indices of S
RECURSIVE ScoreSum(_, _)
ScoreSum(records, S) ==
    IF S = {} THEN 0
    ELSE LET i == CHOOSE j \in S : TRUE
         IN  records[i].clarityScore + ScoreSum(records, S \ {i})

\* C18: over the records fetched, the empty list included, total is their
\* number, processing the number of those in status processing, and the
\* average clarity the mean score of the completed ones rounded to an
\* integer, 0 when none is completed: [] gives 0, completed 80 and
\* completed 60 give 70.
C18_Aggregation ==
    dashboard.screen = "list" =>
        LET completed == WithStatus(query.data, "completed")
            n == Cardinality(completed)
            sum == ScoreSum(query.data, completed)
            avg == dashboard.averageClarityScore
        IN  /\ dashboard.total = Len(query.data)
            /\ dashboard.processing = Cardinality(WithStatus(query.data, "processing"))
            /\ n = 0 => avg = 0
            /\ n > 0 => 2 * n * avg - n <= 2 * sum /\ 2 * sum <= 2 * n * avg + n
            /\ query.data = <<>> => avg = 0
            /\ query.data = <<Blueprint("completed", 80), Blueprint("completed", 60)>>
                   => avg = 70

\* a completed record and a processing one with a higher score: the
\* average is the completed record's score
C18_Witness ==
    /\ dashboard.screen = "list"
    /\ query.data = <<Blueprint("completed", 80), Blueprint("processing", 90)>>
    /\ dashboard.averageClarityScore = 80
    /\ dashboard.processing = 1
    /\ dashboard.total = 2

\* C19: a failure of the blueprints fetch puts the view in the error state
\* at once, after that one attempt; there the fetch is not called again and
\* the view stays in the error state.
C19_FailureIsTerminal ==
    [][ /\ query'.failures > query.failures => dashboard'.screen = "error"
        /\ dashboard.screen = "error" =>
              dashboard'.screen = "error" /\ query'.fetches = query.fetches
      ]_vars

C21_NavigationSurvivesError ==
    boundary.hasError =>
        /\ RootLayout(boundary).fallback
        /\ "MainNav" \in RootLayout(boundary).children

\* the fallback shows the message and the stack of the error
DetailsShown == RootLayout(boundary).details # <<>>

\* C22: the fallback shows the message and the stack of the caught error
\* only in a build that is not a production build, never in a production
\* build; and a boundary that has caught an error keeps showing the
\* fallback: hasError does not return to false.
C22_DetailsOutsideProductionAndSticky ==
    /\ [](DetailsShown =>
            /\ boundary.nodeEnv # "production"
            /\ RootLayout(boundary).fallback
            /\ RootLayout(boundary).details = <<boundary.error.message, boundary.error.stack>>)
    /\ []((boundary.hasError /\ boundary.nodeEnv = "production") => ~DetailsShown)
    /\ [][boundary.hasError =>
            boundary'.hasError /\ RootLayout(boundary').fallback]_vars
    /\ [][boundary'.hasError # boundary.hasError =>
            boundary'.hasError /\ boundary'.error \in ThrownValues]_vars

\* a production build whose page threw an Error after a navigation: the
\* fallback without details
C22_Witness ==
    /\ boundary.nodeEnv = "production"
    /\ boundary.route = "/zustand-example"
    /\ boundary.hasError
    /\ ~boundary.error.falsy
    /\ RootLayout(boundary).fallback
    /\ ~DetailsShown

\* C23: unmounting the terminal view closes the realtime connection opened
\* on mount and removes every listener the view registered (pointer-move
\* and pointer-up of the window, scroll of the timeline, time-update of the
\* media); no realtime, pointer, scroll or time-update event that arrives
\* after the unmount changes the state of the view.
C23_UnmountReleasesEverything ==
    /\ [](~view.mounted =>
            /\ view.socket \in {"CLOSING", "CLOSED"}
            /\ view.listeners = {}
            /\ view.lateHandlers \subseteq {"onopen", "onmessage", "onclose", "onerror"}
            /\ "message" \notin view.late)
    /\ [][~view.mounted =>
            /\ ~view'.mounted
            /\ ViewState(view') = ViewState(view)]_vars
    /\ [][(view.mounted /\ ~view'.mounted) =>
            /\ ViewState(view') = ViewState(view)
            /\ (view.socket \in {"CONNECTING", "OPEN"} => view'.socket = "CLOSING")]_vars

\* the view was unmounted while dragging, with a line in the log, and the
\* close of the connection, a pointer-move, a pointer-up, a scroll and a
\* time-update arrived afterwards: the state is as it was
C23_Witness ==
    /\ ~view.mounted
    /\ view.socket = "CLOSED"
    /\ {"close", "mousemove", "mouseup", "scroll", "timeupdate"} \subseteq view.late
    /\ view.isDragging
    /\ view.websocketMessages = <<"connected">>
    /\ view.currentTime = 1
    /\ view.timelineScrollX = 40

\* the fields the panel shows for a category
ExpectedFields(type) ==
    CASE type \in {"narrative", "clarity"} -> {"text", "score"}
      [] type = "visual" -> {"scene", "description"}
      [] type = "audio" -> {"title", "volume"}
      [] OTHER -> {}

\* C24: for a selection with a category whose data has none of the fields
\* expected for that category, the category section of the panel is the
\* 'no specific data' message.
C24_MissingFieldsFallThrough ==
    (/\ selectedElement.type # "null"
     /\ ExpectedFields(selectedElement.type) \cap DOMAIN DataOf(selectedElement) = {})
        => PropertiesPanel(selectedElement).specific.message = NoSpecificData

\* the panel shows the General section of the interval of this selection
ShowsIntervalOf(selected) ==
    \E i \in DOMAIN mockTimelineData :
        LET element == mockTimelineData[i]
        IN  /\ selected = SelectionOf(element)
            /\ PropertiesPanel(selected).view = "properties"
            /\ PropertiesPanel(selected).general =
                 [id |-> element.id, type |-> element.type,
                  time |-> <<FormatTime(element.start), FormatTime(element.end)>>,
                  duration |-> FormatTime(element.end - element.start)]

\* C25: the panel shows the placeholder exactly when the selection has no
\* category: from the start, through seeks, zooms and drags, until the
\* first click on an interval; from then on it shows the id, the category,
\* the range from start to end and the duration end - start of the interval
\* selected last.
C25_PlaceholderUntilFirstSelection ==
    /\ []((PropertiesPanel(selectedElement) = Placeholder)
              <=> (selectedElement.type = "null"))
    /\ [](selectedElement.type # "null" => ShowsIntervalOf(selectedElement))
    /\ [][selectedElement' # selectedElement =>
            /\ lastEvent'.type = "select"
            /\ ShowsIntervalOf(selectedElement')]_vars
    /\ [][selectedElement.type # "null" => selectedElement'.type # "null"]_vars

\* after a zoom and a seek by a click on the track, with an interval
\* selected that starts 20 seconds in or later
C25_Witness ==
    /\ selectedElement.type # "null"
    /\ selectedElement.timeStart >= 20
    /\ zoomLevel # Int2Num(1)
    /\ currentTime # Int2Num(0)
    /\ PropertiesPanel(selectedElement).general.duration =
         FormatTime(selectedElement.timeEnd - selectedElement.timeStart)
    /\ PropertiesPanel(selectedElement).general.time[1].secs >= 20

\* no 'scroll' event waits and no scroll-sync effect waits
ScrollQuiet == ~scrollEventQueued /\ ~syncEffect.pending

\* C26: the scroll sync never moves the view back to a stale offset: the
\* 'scroll' listener and the scroll-sync effect leave the scroll position
\* of the container where the pointer-move put it, whatever scrollX was
\* reported earlier; and once the events have quiesced, scrollX of the
\* parent equals the scroll position of the container.
C26_NoStaleScrollRestore ==
    /\ [][lastEvent'.type \in {"scroll", "syncEffect"} => scrollLeft' = scrollLeft]_vars
    /\ [](ScrollQuiet => timelineScrollX = scrollLeft)

\* C27: in every reachable state isPlaying is true exactly when the media
\* element is playing, also after the media reached its end or paused by
\* itself and after a play command that did not take effect.
C27_FlagMatchesMedia == isPlaying <=> ~videoPaused

\* C28: the indicator, the intervals and click-to-seek share one origin of
\* the time-to-pixel mapping: when currentTime is the start of an interval
\* the indicator is drawn at the left edge of that interval, and a click on
\* the background where a lane draws time t seeks to t.
C28_OneOrigin ==
    /\ \A i \in DOMAIN mockTimelineData :
         currentTime = Int2Num(mockTimelineData[i].start) =>
             IndicatorLeftEdge(currentTime, zoomLevel)
                 = ElementLeftEdge(mockTimelineData[i], zoomLevel)
    /\ lastEvent.type = "seek" =>
         LaneLeftEdge(lastEvent.target, zoomLevel) = Int2Num(pointerX + scrollLeft)

\* C29: in the creation flow isProcessing and isCompleted are never both
\* true; a submit with an empty or whitespace-only url changes no state; a
\* submit with any other url enters Processing, and Completed is entered
\* only from Processing, when the timer fires; 'Create Another' leads back
\* to the initial state with an empty url.
C29_CreationFlow ==
    /\ [](~(newBlueprint.isProcessing /\ newBlueprint.isCompleted))
    /\ [](newBlueprint.isProcessing <=> newBlueprint.timers = 1)
    /\ [][newBlueprint'.toasts = Append(newBlueprint.toasts, "Error") =>
            /\ Trim(newBlueprint.url) = <<>>
            /\ newBlueprint' = [newBlueprint EXCEPT !.toasts = newBlueprint'.toasts]]_vars
    /\ [][(newBlueprint'.isProcessing /\ ~newBlueprint.isProcessing) =>
            /\ Trim(newBlueprint.url) # <<>>
            /\ newBlueprint'.url = newBlueprint.url
            /\ ~newBlueprint.isCompleted /\ ~newBlueprint'.isCompleted]_vars
    /\ [][(newBlueprint'.isCompleted /\ ~newBlueprint.isCompleted) =>
            /\ newBlueprint.isProcessing /\ ~newBlueprint'.isProcessing
            /\ newBlueprint'.timers = newBlueprint.timers - 1]_vars
    /\ [][newBlueprint'.timers < newBlueprint.timers => newBlueprint'.isCompleted]_vars
    /\ [][(newBlueprint.isCompleted /\ ~newBlueprint'.isCompleted) =>
            /\ newBlueprint'.url = <<>>
            /\ ~newBlueprint'.isProcessing
            /\ newBlueprint'.timers = 0]_vars

\* a submit of a blank url was refused, a url was then submitted
\* and completed, and 'Create Another' led back to the empty form
C29_Witness ==
    /\ newBlueprint.toasts = <<"Error", "Blueprint Created">>
    /\ newBlueprint.url = <<>>
    /\ ~newBlueprint.isProcessing
    /\ ~newBlueprint.isCompleted
    /\ newBlueprint.timers = 0

\* C30: there is at most one relay per server: however often the handler
\* runs, one WebSocketServer (one connection set with one connection
\* handler) was constructed, and a message is delivered to each other open
\* connection exactly once, never twice.
C30_OneRelay ==
    /\ wssCount <= 1
    /\ serverWs <=> wssCount = 1
    /\ clients # {} => wssCount = 1
    /\ \A i \in 1..Len(sent) : \A c \in Conns :
         /\ Cardinality(Deliveries(c, i)) <= wssCount
         /\ (c \in sent[i].open \ {sent[i].from}) => Cardinality(Deliveries(c, i)) = 1

\* the relay exists and a message went to two other open connections, one
\* copy each
C30_Witness ==
    /\ wssCount = 1
    /\ \E i \in 1..Len(sent) :
         /\ Cardinality(sent[i].open \ {sent[i].from}) = 2
         /\ \A c \in sent[i].open \ {sent[i].from} : Cardinality(Deliveries(c, i)) = 1

====
